---- MODULE Spec2Model ----
(***************************************************************************)
(* EmoGo backend (src/main.py): a FastAPI service over one MongoDB         *)
(* collection.  POST /entries validates a body against EmoEntry and        *)
(* inserts it; GET /entries and the four /export/* pages read the whole    *)
(* collection with a projection; the pages embed the data and name the     *)
(* files their download buttons produce.                                   *)
(*                                                                         *)
(* Requests are handled concurrently (sync handlers run on the framework's *)
(* thread pool); each storage call is one atomic step of the store.  Spec  *)
(* runs the requests one at a time, over every endpoint and every body;    *)
(* SpecConcurrent lets the requests of several clients overlap.            *)
(* SpecStartup runs the process from its start, under every configuration *)
(* of the connection string; the other two begin with the service up.      *)
(***************************************************************************)
EXTENDS Integers, Sequences, FiniteSets, TLC

VARIABLES
    entries_col,   \* the collection db["entries"]: documents in insertion order
    req,           \* per client: the request in flight and its handler's locals
    acked,         \* history: the POSTs answered {status: "ok"}, by inserted id
    lastList,      \* history: what GET /entries read last, since the last insert
    launch,        \* how the process was started: its environment, its .env file
    os_environ,    \* os.environ.get("MONGO_URI") as the process sees it now
    main           \* the module's execution: position, globals, fatal error

vars == <<entries_col, req, acked, lastList, launch, os_environ, main>>

\* What the request handlers leave alone.
process == <<launch, os_environ, main>>

\* The module has been executed to its end: the application and its routes
\* exist, and the server routes requests to them.
Serving == main.pc = "serving"

(***************************************************************************)
(* Bounds of the model.                                                    *)
(***************************************************************************)
MaxEntries == 2     \* documents the collection may hold
NumClients == 2     \* clients, each with at most one request in flight

Clients == 1..NumClients

(***************************************************************************)
(* JSON / Python values.  A number is kept in halves (n = 2 * value), so   *)
(* that 25.5 and 4 are both representable; an integral number is one with  *)
(* an even n.  "absent" is a key missing from a JSON object, "undefined"   *)
(* is what JavaScript reads from a missing property.                       *)
(***************************************************************************)
JV(kind, num, str) == [k |-> kind, n |-> num, s |-> str]
Null      == JV("null", 0, "")
Absent    == JV("absent", 0, "")
Undefined == JV("undefined", 0, "")
Arr       == JV("array", 0, "")
Num(h)    == JV("num", h, "")
IntNum(i)    == Num(2 * i)
Str(x)    == JV("str", 0, x)
ObjectId(i) == JV("oid", i, "")

IsIntegral(v) == v.k = "num" /\ v.n % 2 = 0
Trunc(h) == IF h >= 0 THEN h \div 2 ELSE -((-h) \div 2)

Digit == <<"0", "1", "2", "3", "4", "5", "6", "7", "8", "9">>
RECURSIVE IntStr(_)
IntStr(i) == IF i < 0 THEN "-" \o IntStr(-i)
             ELSE IF i < 10 THEN Digit[i + 1]
             ELSE IntStr(i \div 10) \o Digit[(i % 10) + 1]

\* The decimal text of a number, and str() of an ObjectId (24 hex digits;
\* str(None) is "None").
NumStr(h) == IF h % 2 = 0 THEN IntStr(h \div 2) ELSE IntStr(Trunc(h)) \o ".5"
OidStr(v) == IF v.k = "oid" THEN "65f0c0ffee00000000000" \o IntStr(100 + v.n)
             ELSE "None"

\* The strings of the model that int() / float() parse, with their value.
NumericStrings == {"4"}
ParseNum(x) == CASE x = "4" -> IntNum(4)

(***************************************************************************)
(* EmoEntry (pydantic BaseModel).  Each field validator gives the value an *)
(* input is converted to, or Invalid.  The default (lax) mode converts a   *)
(* numeric string to a number and an integral number to an int or a float. *)
(* pydantic 1 and 2 differ on a fractional number given for an int and on  *)
(* a number given for a str (2 rejects them, as below; 1 converts them):   *)
(* the clients of this model send neither.                                 *)
(***************************************************************************)
Fields == {"id", "latitude", "longitude", "mood", "photoUri", "timestamp"}
Invalid == JV("invalid", 0, "")

\* Variant: mood declared Optional[int] = None.
ValidateIntDefaultNone(v) ==
    CASE v.k \in {"absent", "null"} -> Null
      [] v.k = "num" /\ IsIntegral(v) -> v
      [] v.k = "str" /\ v.s \in NumericStrings -> ParseNum(v.s)
      [] OTHER -> Invalid

ValidateInt(v) ==
    CASE v.k = "num" /\ IsIntegral(v) -> v
      [] v.k = "str" /\ v.s \in NumericStrings -> ParseNum(v.s)
      [] OTHER -> Invalid

ValidateFloat(v) ==
    CASE v.k = "num" -> v
      [] v.k = "str" /\ v.s \in NumericStrings -> ParseNum(v.s)
      [] OTHER -> Invalid

ValidateStr(v) ==
    CASE v.k = "str" -> v
      [] OTHER -> Invalid

\* Optional[T] = None: a missing key takes the default, null is accepted.
ValidateOptionalInt(v) ==
    IF v.k \in {"absent", "null"} THEN Null ELSE ValidateInt(v)
ValidateOptionalStr(v) ==
    IF v.k \in {"absent", "null"} THEN Null ELSE ValidateStr(v)

\* The parsed model, field by field (before any check of validity).
EmoEntry(body) ==
    [id        |-> ValidateOptionalInt(body.id),
     latitude  |-> ValidateFloat(body.latitude),
     longitude |-> ValidateFloat(body.longitude),
     mood      |-> ValidateInt(body.mood),
     photoUri  |-> ValidateOptionalStr(body.photoUri),
     timestamp |-> ValidateStr(body.timestamp)]

ValidationError(entry) == \E f \in Fields : entry[f] = Invalid

(***************************************************************************)
(* The request bodies the clients send: the entries of the specification's *)
(* scenarios, and one-field departures from the first of them.             *)
(***************************************************************************)
Entry(id, lat, lon, mood, photo, ts) ==
    [id |-> id, latitude |-> lat, longitude |-> lon, mood |-> mood,
     photoUri |-> photo, timestamp |-> ts]

T1 == Str("2024-01-01T10:00:00Z")
BaseBody == Entry(Absent, Num(51), Num(243), IntNum(4), Str("p1.jpg"), T1)

WellFormedBodies ==
    { Entry(i, Num(51), Num(243), IntNum(4), p, T1) :
        i \in {Absent, Null, IntNum(1)}, p \in {Absent, Str("p1.jpg")} }
    \cup { Entry(IntNum(2), Num(51), Num(243), IntNum(4), Str("p1.jpg"), T1) }

Departures ==
    [id        |-> {Arr, Str("x")},
     latitude  |-> {Absent, Null, Str("4"), Str("x")},
     longitude |-> {Absent, Arr},
     mood      |-> {Absent, Null, Str("4"), Str("x"), Arr},
     photoUri  |-> {Arr},
     timestamp |-> {Absent, Null, Arr}]

DepartingBodies ==
    UNION { { [BaseBody EXCEPT ![f] = v] : v \in Departures[f] } : f \in Fields }

Bodies == WellFormedBodies \cup DepartingBodies

\* The bodies of the specification's scenarios (section 8, items 2, 5, 6).
ScenarioBodies ==
    { BaseBody,
      Entry(IntNum(1), Num(51), Num(243), IntNum(4), Absent, T1),
      [BaseBody EXCEPT !.mood = Absent] }
NoBody == [f \in Fields |-> Absent]

(***************************************************************************)
(* The document store.                                                     *)
(***************************************************************************)
NoDoc == [f \in {} |-> Null]

\* Variant: entry.dict(exclude_none=True).
EntryDictExcludeNone(entry) ==
    [f \in {g \in Fields : entry[g] # Null} |-> entry[f]]

\* entry.dict(): every declared field, the unset optional ones as None.
EntryDict(entry) == [f \in Fields |-> entry[f]]

\* insert_one(doc): the driver gives the document a fresh _id and the store
\* appends it; nothing already stored is looked at.
WithId(doc, oid) == [f \in DOMAIN doc \cup {"_id"} |->
                        IF f = "_id" THEN oid ELSE doc[f]]
NextObjectId(col) == ObjectId(Len(col) + 1)
\* Variant: replace_one({"id": doc["id"]}, doc, upsert=True).
InsertOneUpsert(col, doc) ==
    LET new  == WithId(doc, NextObjectId(col))
        same == {i \in 1..Len(col) : col[i].id = doc.id}
    IN  IF same = {} THEN Append(col, new)
        ELSE [i \in 1..Len(col) |-> IF i \in same THEN new ELSE col[i]]

\* Variant: skip the insert when an equal document is already stored.
InsertOneDedup(col, doc) ==
    IF \E i \in 1..Len(col) : \A f \in DOMAIN doc : col[i][f] = doc[f]
    THEN col
    ELSE Append(col, WithId(doc, NextObjectId(col)))

InsertOne(col, doc) == Append(col, WithId(doc, NextObjectId(col)))

\* The projections the handlers pass to find().
ProjAll        == [_id |-> 0]
ProjVlogs      == [_id |-> 0, id |-> 1, photoUri |-> 1, timestamp |-> 1]
ProjSentiments == [_id |-> 0, id |-> 1, mood |-> 1, timestamp |-> 1]
ProjGps        == [_id |-> 0, id |-> 1, latitude |-> 1, longitude |-> 1,
                   timestamp |-> 1]

\* MongoDB's projection of one document: naming a field with 1 keeps only the
\* named fields that the document has; with no field named, every field not
\* marked 0 is kept; _id is kept unless it is marked 0.
ProjectedKeys(doc, proj) ==
    LET named  == {f \in DOMAIN proj \ {"_id"} : proj[f] = 1}
        hidden == {f \in DOMAIN proj : proj[f] = 0}
        idKey  == IF "_id" \in hidden THEN {} ELSE {"_id"}
    IN  IF named = {} THEN DOMAIN doc \ hidden
        ELSE (named \cup idKey) \cap DOMAIN doc

\* Variant: the handler turns _id into a string instead of projecting it away.
ApplyProjectionStringId(doc, proj) ==
    [f \in ProjectedKeys(doc, proj) \cup ({"_id"} \cap DOMAIN doc) |->
        IF f = "_id" THEN Str(OidStr(doc[f])) ELSE doc[f]]

ApplyProjection(doc, proj) == [f \in ProjectedKeys(doc, proj) |-> doc[f]]

\* Variant: a read served from a copy that lags one insert behind.
FindLagging(col, proj) ==
    [i \in 1..(IF Len(col) > 0 THEN Len(col) - 1 ELSE 0) |->
        ApplyProjection(col[i], proj)]

\* find({}, proj): every document, in the store's (insertion) order.
Find(col, proj) == [i \in 1..Len(col) |-> ApplyProjection(col[i], proj)]

\* json.dumps / the framework's encoder: an ObjectId is not serializable.
Serializable(docs) ==
    \A i \in 1..Len(docs) : \A f \in DOMAIN docs[i] : docs[i][f].k # "oid"

(***************************************************************************)
(* Requests and responses.                                                 *)
(***************************************************************************)
Views == {"export_all_html", "export_vlogs_html", "export_sentiments_html",
          "export_gps_html"}
Readers == Views \cup {"list_entries"}

ProjectionOf(op) ==
    CASE op = "list_entries"           -> ProjAll
      [] op = "export_all_html"        -> ProjAll
      [] op = "export_vlogs_html"      -> ProjVlogs
      [] op = "export_sentiments_html" -> ProjSentiments
      [] op = "export_gps_html"        -> ProjGps

NoFields == [f \in {} |-> Null]
Response(status, kind, fields, data) ==
    [status |-> status, kind |-> kind, fields |-> fields, data |-> data]
NoResp == Response(0, "none", NoFields, <<>>)

\* The requests in flight before any has arrived, and after a response.

Idle == [pc |-> "idle", op |-> "none", body |-> NoBody, doc |-> NoDoc,
         inserted_id |-> Null, resp |-> NoResp, download |-> "", row |-> 0,
         at |-> 0]

\* Connection strings: the ones MongoClient accepts, and the others the
\* process may be started with ("" is a variable set to nothing).
ValidUris == {Str("mongodb://db:27017"), Str("mongodb://localhost:27017")}
Uris == ValidUris \cup {Str(""), Str("http://db")}

\* The module's globals once a name is bound: client = MongoClient(uri),
\* app = FastAPI().
ClientOf(uri) == JV("MongoClient", 0, uri.s)
App == JV("FastAPI", 0, "")

\* The process as deployed (the variable set in the host's environment, no
\* python-dotenv, no .env file), and the module once it has run to its end.
Deployment == [environ |-> Str("mongodb://db:27017"), dotenv |-> FALSE,
               file |-> Null]
Started(uri) == [pc |-> "serving", MONGO_URI |-> uri, client |-> ClientOf(uri),
                 app |-> App, error |-> ""]

Init ==
    /\ entries_col = <<>>
    /\ req = [c \in Clients |-> Idle]
    /\ acked = {}
    /\ lastList = [valid |-> FALSE, data |-> <<>>]
    /\ launch = Deployment
    /\ os_environ = Deployment.environ
    /\ main = Started(Deployment.environ)

\* GET /
root(c) ==
    /\ Serving
    /\ req[c].pc = "idle"
    /\ req' = [req EXCEPT ![c] = [Idle EXCEPT
                 !.pc = "done", !.op = "root",
                 !.resp = Response(200, "json",
                     [message |-> Str("EmoGo backend is running.")], <<>>)]]
    /\ UNCHANGED <<entries_col, acked, lastList, process>>

\* GET /items/{item_id}?q=
ItemIds == {1, 2}
Queries == {Null, Str("x")}
read_item(c, item_id, q) ==
    /\ Serving
    /\ req[c].pc = "idle"
    /\ req' = [req EXCEPT ![c] = [Idle EXCEPT
                 !.pc = "done", !.op = "read_item",
                 !.resp = Response(200, "json",
                     [item_id |-> IntNum(item_id), q |-> q], <<>>)]]
    /\ UNCHANGED <<entries_col, acked, lastList, process>>

\* GET /export: the static index page.
export_page(c) ==
    /\ Serving
    /\ req[c].pc = "idle"
    /\ req' = [req EXCEPT ![c] = [Idle EXCEPT
                 !.pc = "done", !.op = "export_page",
                 !.resp = Response(200, "html", NoFields, <<>>)]]
    /\ UNCHANGED <<entries_col, acked, lastList, process>>

\* POST /entries arrives: the framework parses the body into an EmoEntry and
\* answers 422 itself when that fails; otherwise create_entry starts and
\* builds doc = entry.dict().
Pending == Cardinality({c \in Clients : req[c].pc = "create_entry"})
post_entries(c, body) ==
    /\ Serving
    /\ req[c].pc = "idle"
    /\ LET entry == EmoEntry(body) IN
       IF ValidationError(entry)
       THEN req' = [req EXCEPT ![c] = [Idle EXCEPT
                      !.pc = "done", !.op = "create_entry", !.body = body,
                      !.resp = Response(422, "json",
                          [detail |-> Str("validation error")], <<>>)]]
       ELSE /\ Len(entries_col) + Pending < MaxEntries
            /\ req' = [req EXCEPT ![c] = [Idle EXCEPT
                      !.pc = "create_entry", !.op = "create_entry",
                      !.body = body, !.doc = EntryDict(entry)]]
    /\ UNCHANGED <<entries_col, acked, lastList, process>>

\* result = entries_col.insert_one(doc).  The store reports the new
\* identifier, or (the case line 69 guards against) none.
InsertedIds(col) == {NextObjectId(col), Null}
create_entry_insert(c, inserted_id) ==
    /\ req[c].pc = "create_entry"
    /\ inserted_id \in InsertedIds(entries_col)
    /\ entries_col' = InsertOne(entries_col, req[c].doc)
    /\ req' = [req EXCEPT ![c].pc = "inserted",
                          ![c].doc = WithId(req[c].doc, NextObjectId(entries_col)),
                          ![c].inserted_id = inserted_id,
                          ![c].at = Len(entries_col) + 1]
    /\ lastList' = [valid |-> FALSE, data |-> <<>>]
    /\ UNCHANGED <<acked, process>>

\* Variant: the result is not checked.
CreateEntryResponseUnchecked(inserted_id) ==
    Response(200, "json",
        [status |-> Str("ok"), inserted_id |-> Str(OidStr(inserted_id))], <<>>)

\* if not result.inserted_id: raise HTTPException(500) / return {"status": "ok", ...}
\* Python's truth test: None and the empty string are false.
Truthy(v) == v.k # "null" /\ v # Str("")
CreateEntryResponse(inserted_id) ==
    IF ~Truthy(inserted_id)
    THEN Response(500, "json", [detail |-> Str("Insert failed")], <<>>)
    ELSE Response(200, "json",
             [status |-> Str("ok"), inserted_id |-> Str(OidStr(inserted_id))], <<>>)

create_entry_return(c) ==
    /\ req[c].pc = "inserted"
    /\ LET resp == CreateEntryResponse(req[c].inserted_id) IN
       /\ req' = [req EXCEPT ![c].pc = "done", ![c].resp = resp]
       /\ acked' = IF resp.status = 200
                   THEN acked \cup {[oid |-> req[c].at, body |-> req[c].body]}
                   ELSE acked
    /\ UNCHANGED <<entries_col, lastList, process>>

\* A GET of /entries or of an /export/<view> page arrives.
get(c, op) ==
    /\ Serving
    /\ req[c].pc = "idle"
    /\ op \in Readers
    /\ req' = [req EXCEPT ![c] = [Idle EXCEPT
                 !.pc = op, !.op = op]]
    /\ UNCHANGED <<entries_col, acked, lastList, process>>

\* The body of a reading handler: one find(), then the rendering of what it
\* returned (a JSON envelope, or the page with DATA embedded).
ReadResponse(op, docs) ==
    IF ~Serializable(docs)
    THEN Response(500, "json", [detail |-> Str("Internal Server Error")], <<>>)
    ELSE Response(200, IF op = "list_entries" THEN "json" ELSE "html",
                  NoFields, docs)

\* Variant: the handler removes what it has read (a read-and-clear export).
HandleDraining(c, op) ==
    /\ req[c].pc = op
    /\ LET docs == Find(entries_col, ProjectionOf(op)) IN
       /\ req' = [req EXCEPT ![c].pc = "done",
                             ![c].resp = ReadResponse(op, docs),
                             ![c].at = Len(entries_col)]
       /\ lastList' = IF op = "list_entries"
                      THEN [valid |-> TRUE, data |-> docs]
                      ELSE lastList
    /\ entries_col' = <<>>
    /\ UNCHANGED <<acked, process>>

Handle(c, op) ==
    /\ req[c].pc = op
    /\ LET docs == Find(entries_col, ProjectionOf(op)) IN
       /\ req' = [req EXCEPT ![c].pc = "done",
                             ![c].resp = ReadResponse(op, docs),
                             ![c].at = Len(entries_col)]
       /\ lastList' = IF op = "list_entries"
                      THEN [valid |-> TRUE, data |-> docs]
                      ELSE lastList
    /\ UNCHANGED <<entries_col, acked, process>>

list_entries(c)           == Handle(c, "list_entries")
export_all_html(c)        == Handle(c, "export_all_html")
export_vlogs_html(c)      == Handle(c, "export_vlogs_html")
export_sentiments_html(c) == Handle(c, "export_sentiments_html")
export_gps_html(c)        == Handle(c, "export_gps_html")

(***************************************************************************)
(* The page's script: the download buttons.                                *)
(***************************************************************************)
FilePrefix(op) ==
    CASE op = "export_all_html"        -> "emogo_entry_"
      [] op = "export_vlogs_html"      -> "emogo_vlog_"
      [] op = "export_sentiments_html" -> "emogo_sentiment_"
      [] op = "export_gps_html"        -> "emogo_gps_"

BulkFile(op) ==
    CASE op = "export_all_html"        -> "emogo_all_entries.json"
      [] op = "export_vlogs_html"      -> "emogo_vlogs.json"
      [] op = "export_sentiments_html" -> "emogo_sentiments.json"
      [] op = "export_gps_html"        -> "emogo_gps.json"

\* item.id in JavaScript: the property's value, undefined when it is missing.
JsGet(item, key) == IF key \in DOMAIN item THEN item[key] ELSE Undefined

\* "" + v in JavaScript.
JsString(v) ==
    CASE v.k = "null"      -> "null"
      [] v.k = "undefined" -> "undefined"
      [] v.k = "num"       -> NumStr(v.n)
      [] v.k = "str"       -> v.s

\* const filenameId = item.id !== undefined ? item.id : (idx + 1);
FilenameId(item, idx) ==
    IF JsGet(item, "id") # Undefined THEN JsGet(item, "id") ELSE IntNum(idx + 1)

SingleFile(op, item, idx) ==
    FilePrefix(op) \o JsString(FilenameId(item, idx)) \o ".json"

OnPage(c) == /\ req[c].pc = "done"
             /\ req[c].op \in Views
             /\ req[c].resp.status = 200

\* btn.onclick of the row at 1-based position k (idx = k - 1).
download_single(c, k) ==
    /\ OnPage(c)
    /\ k \in 1..Len(req[c].resp.data)
    /\ req' = [req EXCEPT
                 ![c].download = SingleFile(req[c].op, req[c].resp.data[k], k - 1),
                 ![c].row = k]
    /\ UNCHANGED <<entries_col, acked, lastList, process>>

\* document.getElementById("download-all").onclick
download_all(c) ==
    /\ OnPage(c)
    /\ req' = [req EXCEPT ![c].download = BulkFile(req[c].op), ![c].row = 0]
    /\ UNCHANGED <<entries_col, acked, lastList, process>>

\* The client is done with the response (or leaves the page).
close(c) ==
    /\ req[c].pc = "done"
    /\ req' = [req EXCEPT ![c] = Idle]
    /\ UNCHANGED <<entries_col, acked, lastList, process>>

(***************************************************************************)
(* Process start: the module's top-level statements, in order.  An         *)
(* exception there ends the import, and with it the process: nothing is    *)
(* served.                                                                 *)
(***************************************************************************)
Launches == [environ : {Null} \cup Uris,           \* Null: the variable is unset
             dotenv  : BOOLEAN,                    \* python-dotenv is installed
             file    : {Null, Str(""), Str("mongodb://localhost:27017")}]
                                                   \* MONGO_URI in .env, if any

Loading == [pc |-> "load_dotenv", MONGO_URI |-> Undefined, client |-> Undefined,
            app |-> Undefined, error |-> ""]

Fail(m, error) == [m EXCEPT !.pc = "failed", !.error = error]

\* try: from dotenv import load_dotenv; load_dotenv() / except ImportError: pass
\* load_dotenv() does not override a variable the environment already has.
load_dotenv ==
    /\ main.pc = "load_dotenv"
    /\ os_environ' = IF launch.dotenv /\ os_environ = Null
                     THEN launch.file
                     ELSE os_environ
    /\ main' = [main EXCEPT !.pc = "getenv"]
    /\ UNCHANGED <<entries_col, req, acked, lastList, launch>>

\* MONGO_URI = os.getenv("MONGO_URI")
os_getenv ==
    /\ main.pc = "getenv"
    /\ main' = [main EXCEPT !.pc = "check", !.MONGO_URI = os_environ]
    /\ UNCHANGED <<entries_col, req, acked, lastList, launch, os_environ>>

\* Variant: only an unset variable is refused (MONGO_URI is None).
CheckUriNoneOnly(m) ==
    IF m.MONGO_URI = Null
    THEN Fail(m, "RuntimeError")
    ELSE [m EXCEPT !.pc = "MongoClient"]

\* if not MONGO_URI: raise RuntimeError("MONGO_URI is not set. ...")
CheckUri(m) ==
    IF ~Truthy(m.MONGO_URI)
    THEN Fail(m, "RuntimeError")
    ELSE [m EXCEPT !.pc = "MongoClient"]

check_MONGO_URI ==
    /\ main.pc = "check"
    /\ main' = CheckUri(main)
    /\ UNCHANGED <<entries_col, req, acked, lastList, launch, os_environ>>

\* client = MongoClient(MONGO_URI); db = client["emogo"];
\* entries_col = db["entries"].  The constructor parses the string (and
\* raises on one it cannot parse); it does not talk to the store.
MongoClient ==
    /\ main.pc = "MongoClient"
    /\ main' = CASE main.MONGO_URI \in ValidUris ->
                      [main EXCEPT !.pc = "FastAPI",
                                   !.client = ClientOf(main.MONGO_URI)]
                 [] main.MONGO_URI = Str("") -> Fail(main, "ConfigurationError")
                 [] OTHER -> Fail(main, "InvalidURI")
    /\ UNCHANGED <<entries_col, req, acked, lastList, launch, os_environ>>

\* app = FastAPI(), the CORS middleware, and the route decorators down to
\* the end of the module.
FastAPI ==
    /\ main.pc = "FastAPI"
    /\ main' = [main EXCEPT !.pc = "serving", !.app = App]
    /\ UNCHANGED <<entries_col, req, acked, lastList, launch, os_environ>>

(***************************************************************************)
(* The steps of one client, by kind of request.                            *)
(***************************************************************************)
StaticStep(c) ==
    \/ root(c)
    \/ \E i \in ItemIds, q \in Queries : read_item(c, i, q)
    \/ export_page(c)

WriteStep(c, bodies) ==
    \/ \E body \in bodies : post_entries(c, body)
    \/ \E id \in InsertedIds(entries_col) : create_entry_insert(c, id)
    \/ create_entry_return(c)

ListStep(c) ==
    \/ get(c, "list_entries")
    \/ list_entries(c)

ViewStep(c) ==
    \/ \E op \in Views : get(c, op)
    \/ export_all_html(c)
    \/ export_vlogs_html(c)
    \/ export_sentiments_html(c)
    \/ export_gps_html(c)

PageStep(c) ==
    \/ \E k \in 1..MaxEntries : download_single(c, k)
    \/ download_all(c)

\* Requests one at a time: every endpoint, every body of the model.
Next ==
    \/ StaticStep(1)
    \/ WriteStep(1, Bodies)
    \/ ListStep(1)
    \/ ViewStep(1)
    \/ PageStep(1)
    \/ close(1)
Spec == Init /\ [][Next]_vars

\* Requests that overlap: client 1 reads (listing and export pages) while
\* the other clients, instances of the mobile app, post the scenario bodies
\* and list.
NextConcurrent ==
    \/ ListStep(1) \/ ViewStep(1) \/ close(1)
    \/ \E c \in Clients \ {1} :
          WriteStep(c, ScenarioBodies) \/ ListStep(c) \/ close(c)
SpecConcurrent == Init /\ [][NextConcurrent]_vars

\* A run of the process from its start, under every way of starting it.
\* The store outlives the process: it may hold an entry of an earlier run.
InitStartup ==
    /\ entries_col \in {<<>>, InsertOne(<<>>, EntryDict(EmoEntry(BaseBody)))}
    /\ req = [c \in Clients |-> Idle]
    /\ acked = {}
    /\ lastList = [valid |-> FALSE, data |-> <<>>]
    /\ launch \in Launches
    /\ os_environ = launch.environ
    /\ main = Loading

NextStartup ==
    \/ load_dotenv
    \/ os_getenv
    \/ check_MONGO_URI
    \/ MongoClient
    \/ FastAPI
    \/ StaticStep(1)
    \/ WriteStep(1, ScenarioBodies)
    \/ ListStep(1)
    \/ close(1)
SpecStartup == InitStartup /\ [][NextStartup]_vars

(***************************************************************************)
(* Vocabulary of the properties.                                           *)
(***************************************************************************)
Required      == {"latitude", "longitude", "mood", "timestamp"}
NumericFields == {"id", "latitude", "longitude", "mood"}

\* An entry as the data model (section 3) describes it.
WellFormed(e) ==
    /\ e.id.k \in {"absent", "null"} \/ IsIntegral(e.id)
    /\ e.latitude.k = "num" /\ e.longitude.k = "num"
    /\ IsIntegral(e.mood)
    /\ e.photoUri.k \in {"absent", "null", "str"}
    /\ e.timestamp.k = "str"

\* The record a client expects back for e: its fields, the omitted ones null.
AsRecord(e) == [f \in Fields |-> IF e[f] = Absent THEN Null ELSE e[f]]

Done(c)     == req[c].pc = "done"
Data(c)     == req[c].resp.data
Posted(c)   == req[c].op = "create_entry"
Listed(c)   == Done(c) /\ req[c].op = "list_entries"
Stored(col) == {col[i] : i \in 1..Len(col)}

\* C1: once POST /entries of a well-formed entry e has been answered "ok",
\* a GET /entries that reads the collection after e's insert answers 200 with
\* a list holding a record equal to e field for field (omitted id / photoUri
\* as null) that has no _id key.
C1_PostedEntryIsListed ==
    \A c \in Clients : Listed(c) =>
        \A a \in acked : (WellFormed(a.body) /\ a.oid <= req[c].at) =>
            /\ req[c].resp.status = 200
            /\ \E k \in 1..Len(Data(c)) :
                  /\ Data(c)[k] = AsRecord(a.body)
                  /\ DOMAIN Data(c)[k] = Fields

C1_Witness ==
    \E c \in Clients : \E a \in acked :
        /\ Listed(c) /\ a.oid <= req[c].at /\ Len(Data(c)) = 2
        /\ a.body.id = Absent /\ a.body.photoUri = Absent
        /\ AsRecord(a.body) \in Stored(Data(c))

\* The internal identifiers of the stored entries, as ObjectIds and as text.
InternalIds ==
    {d["_id"] : d \in Stored(entries_col)}
        \cup {Str(OidStr(d["_id"])) : d \in Stored(entries_col)}

Exposes(resp) ==
    \/ \E f \in DOMAIN resp.fields : resp.fields[f] \in InternalIds
    \/ \E k \in 1..Len(resp.data) :
          \/ "_id" \in DOMAIN resp.data[k]
          \/ \E f \in DOMAIN resp.data[k] : resp.data[k][f] \in InternalIds

\* C2 (as claimed): no response body of any endpoint, POST /entries included,
\* holds the internal identifier of a stored entry.
C2_NoInternalIdInAnyResponse ==
    \A c \in Clients : Done(c) => ~Exposes(req[c].resp)

\* C2 (amended): no response of a read endpoint and no error response holds
\* an internal identifier; the "ok" response of POST /entries holds the
\* identifier of the entry it inserted, as the string inserted_id, and in no
\* other field.
C2_OnlyInsertedIdExposesInternalId ==
    \A c \in Clients : Done(c) =>
        IF Posted(c) /\ req[c].resp.status = 200
        THEN /\ req[c].resp.fields.inserted_id = Str(OidStr(req[c].doc["_id"]))
             /\ req[c].doc \in Stored(entries_col)
             /\ \A f \in DOMAIN req[c].resp.fields \ {"inserted_id"} :
                   req[c].resp.fields[f] \notin InternalIds
             /\ req[c].resp.data = <<>>
        ELSE ~Exposes(req[c].resp)

C2_Witness ==
    \E c \in Clients :
        /\ Done(c) /\ req[c].op = "export_gps_html" /\ Len(Data(c)) = 2
        /\ ~Exposes(req[c].resp)
        /\ \A d \in Stored(entries_col) : "_id" \in DOMAIN d

\* What the claim calls a body that must be rejected: a required field is
\* missing, or a field holds a value of another primitive type than declared.
WrongType(f, v) ==
    /\ v.k # "absent"
    /\ ~(f \notin Required /\ v.k = "null")
    /\ IF f \in NumericFields THEN v.k # "num" ELSE v.k # "str"
Malformed(body) ==
    \/ \E f \in Required : body[f] = Absent
    \/ \E f \in Fields : WrongType(f, body[f])

\* The bodies no conversion rescues: a required field missing or null, an
\* array for any field, a non-numeric string for a number.
Unconvertible(body) ==
    \/ \E f \in Required : body[f].k \in {"absent", "null"}
    \/ \E f \in Fields : body[f].k = "array"
    \/ \E f \in NumericFields : body[f].k = "str" /\ body[f].s \notin NumericStrings

Rejected(c) ==
    /\ Done(c) /\ req[c].resp.status = 422
    /\ req[c].doc = NoDoc /\ req[c].at = 0

\* C3 (as claimed): every POST /entries whose body misses a required field or
\* has a field of the wrong primitive type is rejected with a validation
\* error and reaches no storage call.
C3_MalformedBodyIsRejected ==
    \A c \in Clients : (Posted(c) /\ Malformed(req[c].body)) =>
        /\ req[c].pc # "inserted"
        /\ Done(c) => Rejected(c)

\* Such a request is answered 422 without having reached the store ...
C3_RejectedInState ==
    \A c \in Clients : (Posted(c) /\ Unconvertible(req[c].body)) => Rejected(c)
\* ... and no step of it changes the collection.
C3_RejectedLeavesCollection ==
    \A c \in Clients :
        (req'[c] # req[c] /\ Posted(c)' /\ Unconvertible(req'[c].body))
            => entries_col' = entries_col

\* C3 (amended): a POST /entries whose body misses a required field (or has
\* it null), or has a field that cannot be converted to its declared type (an
\* array, a non-numeric string for a number), is rejected with a validation
\* error before any storage call, and the collection is unchanged by it.
C3_UnconvertibleBodyIsRejected ==
    []C3_RejectedInState /\ [][C3_RejectedLeavesCollection]_vars

C3_Witness ==
    \E c \in Clients :
        /\ Posted(c) /\ Rejected(c) /\ req[c].body.mood = Absent
        /\ Len(entries_col) = 1

\* The fields of each export view (section 4.3).
ViewFields(op) ==
    CASE op = "export_all_html" ->
            {"id", "latitude", "longitude", "mood", "photoUri", "timestamp"}
      [] op = "export_vlogs_html"      -> {"id", "photoUri", "timestamp"}
      [] op = "export_sentiments_html" -> {"id", "mood", "timestamp"}
      [] op = "export_gps_html"        -> {"id", "latitude", "longitude", "timestamp"}
      [] op = "list_entries"           -> Fields

Viewed(c) == Done(c) /\ req[c].op \in Views

\* C4: the data embedded in an export page has one record per entry stored
\* when the page was read, and each record has exactly the fields of the
\* page's view.
C4_ViewHasExactlyItsFields ==
    \A c \in Clients : Viewed(c) =>
        /\ req[c].resp.status = 200
        /\ Len(Data(c)) = req[c].at
        /\ \A k \in 1..Len(Data(c)) : DOMAIN Data(c)[k] = ViewFields(req[c].op)

C4_Witness ==
    \E c \in Clients :
        /\ Viewed(c) /\ req[c].op = "export_vlogs_html" /\ Len(Data(c)) = 2
        /\ Data(c)[1].id = IntNum(1) /\ Data(c)[2].id = IntNum(2)
        /\ \A k \in 1..2 : DOMAIN Data(c)[k] = {"id", "photoUri", "timestamp"}

IsPrefix(s, t) == Len(s) <= Len(t) /\ \A i \in 1..Len(s) : t[i] = s[i]
Strip(doc) == [f \in DOMAIN doc \ {"_id"} |-> doc[f]]

\* A step is the insert of client c's create_entry.
InsertStep(c) == req[c].pc = "create_entry" /\ req'[c].pc = "inserted"

\* What one step may do to the collection.
C5_Step ==
    /\ IsPrefix(entries_col, entries_col')
    /\ entries_col' # entries_col =>
          \E c \in Clients :
             /\ InsertStep(c)
             /\ Posted(c) /\ ~Unconvertible(req[c].body)
             /\ entries_col' = Append(entries_col, req'[c].doc)
             /\ Strip(req'[c].doc) = req[c].doc
    /\ \A c \in Clients :
          (req'[c] # req[c] /\ ~InsertStep(c)) => entries_col' = entries_col

\* C5: every stored entry stays stored, in place and unchanged; the
\* collection changes only by the insert of a POST /entries whose body passed
\* validation, which appends that entry; no other request (GET /,
\* /items/{item_id}, /entries, /export, /export/*) changes it.
C5_EntriesAreNeverChanged == [][C5_Step]_vars

C5_Witness ==
    \E c \in Clients :
        /\ Viewed(c) /\ req[c].op = "export_all_html"
        /\ req[c].download # "" /\ req[c].at = 2
        /\ Len(entries_col) = 2
        /\ \A k \in 1..2 : Strip(entries_col[k]) = Data(c)[k]
        /\ entries_col[1].id # entries_col[2].id

\* A listing's read, when a listing has read since the last insert.
C6_Step ==
    \A c \in Clients :
        (req[c].pc = "list_entries" /\ req'[c].pc = "done" /\ lastList.valid) =>
            req'[c].resp = Response(200, "json", NoFields, lastList.data)

\* C6: a GET /entries that reads the collection when no insert has happened
\* since the previous GET /entries read it returns what that one returned,
\* whatever other requests ran in between.
C6_ListingIsRepeatable == [][C6_Step]_vars

C6_Witness ==
    \E c, d \in Clients :
        /\ c # d /\ Listed(c) /\ Listed(d)
        /\ req[c].at = 1 /\ req[d].at = 1
        /\ Data(c) = Data(d) /\ Len(Data(c)) = 1
        /\ lastList.valid

\* The insert appends one record and touches no other.
C7_Step ==
    \A c \in Clients : InsertStep(c) =>
        /\ Len(entries_col') = Len(entries_col) + 1
        /\ IsPrefix(entries_col, entries_col')
        /\ Strip(entries_col'[Len(entries_col')]) = req[c].doc
\* Each POST answered "ok" has a stored record of its own.
C7_OwnRecord ==
    /\ \A a \in acked :
          /\ a.oid \in 1..Len(entries_col)
          /\ WellFormed(a.body) => Strip(entries_col[a.oid]) = AsRecord(a.body)
    /\ \A a, b \in acked : a.oid = b.oid => a = b

\* C7: the insert of a POST /entries appends exactly one record, the entry
\* as validated, and leaves the stored records as they were; every POST
\* answered "ok" has its own stored record, so the same entry posted n times
\* is stored n times.
C7_InsertNeverMerges == []C7_OwnRecord /\ [][C7_Step]_vars

C7_Witness ==
    \E a, b \in acked :
        /\ a.oid # b.oid /\ a.body = b.body /\ a.body.id = IntNum(1)
        /\ Strip(entries_col[a.oid]) = Strip(entries_col[b.oid])
        /\ Len(entries_col) = 2

\* C8: a POST /entries that reached the store is answered 200
\* {status: "ok", inserted_id: <the identifier as a string>} exactly when the
\* store returned an identifier, and 500 with no success indicator when it
\* returned none.
C8_OkExactlyWhenIdReturned ==
    \A c \in Clients : (Posted(c) /\ Done(c) /\ req[c].at > 0) =>
        IF req[c].inserted_id # Null
        THEN /\ req[c].resp.status = 200
             /\ req[c].resp.fields =
                   [status |-> Str("ok"),
                    inserted_id |-> Str(OidStr(req[c].inserted_id))]
             /\ req[c].inserted_id.k = "oid"
        ELSE /\ req[c].resp.status = 500
             /\ "status" \notin DOMAIN req[c].resp.fields
             /\ "inserted_id" \notin DOMAIN req[c].resp.fields

C8_Witness ==
    \E c \in Clients :
        /\ Posted(c) /\ Done(c) /\ req[c].inserted_id = Null
        /\ req[c].resp.status = 500 /\ req[c].at = 2
        /\ \E a \in acked : a.oid = 1

\* The prefix the claim gives each view's files.
NamedPrefix(op) ==
    CASE op = "export_all_html"        -> "emogo_entry_"
      [] op = "export_vlogs_html"      -> "emogo_vlog_"
      [] op = "export_sentiments_html" -> "emogo_sentiment_"
      [] op = "export_gps_html"        -> "emogo_gps_"

\* An entry has an id when the key is there and is not null.
HasId(item) == "id" \in DOMAIN item /\ item.id # Null

\* C9: the file of the download button of row k is named by the view's
\* prefix followed by the entry's id when it has one and by k when it has
\* none (an id of null is none); the bulk file's name depends on the view
\* only.
C9_DownloadNamedByIdOrRow ==
    \A c \in Clients : (Viewed(c) /\ req[c].download # "") =>
        IF req[c].row = 0
        THEN req[c].download = BulkFile(req[c].op)
        ELSE LET item == Data(c)[req[c].row] IN
             req[c].download
                = NamedPrefix(req[c].op)
                    \o (IF HasId(item) THEN NumStr(item.id.n)
                        ELSE IntStr(req[c].row))
                    \o ".json"

\* The data is the projection of the collection as it stood at the read.
C10_Snapshot ==
    \A c \in Clients : (Done(c) /\ req[c].op \in Readers) =>
        /\ req[c].at <= Len(entries_col)
        /\ Len(Data(c)) = req[c].at
        /\ \A k \in 1..req[c].at :
              Data(c)[k] = [f \in ViewFields(req[c].op) |-> entries_col[k][f]]
\* A response, once made, is not refreshed.
C10_Held ==
    \A c \in Clients : (Done(c) /\ Done(c)') => req'[c].resp = req[c].resp

\* C10: the records of a listing or of an export page are the projection of
\* the collection as it stood at the handler's one read (every entry stored
\* by then, whole, and none stored later), and they do not change while the
\* response is held, whatever is inserted meanwhile.
C10_ResponseIsOneSnapshot == []C10_Snapshot /\ [][C10_Held]_vars

C10_Witness ==
    \E c, d \in Clients :
        /\ Viewed(c) /\ req[c].at = 1 /\ Len(Data(c)) = 1
        /\ Listed(d) /\ req[d].at = 2 /\ Len(Data(d)) = 2
        /\ Len(entries_col) = 2

(***************************************************************************)
(* C11.  Missing connection string.                                        *)
(***************************************************************************)
\* The connection string the process is configured with: the environment's
\* MONGO_URI, else the one of the local .env file where that file is read.
ConnectionString(l) ==
    IF l.environ # Null THEN l.environ
    ELSE IF l.dotenv THEN l.file
    ELSE Null

ConfigAbsent == ConnectionString(launch) \in {Null, Str("")}

C11_Fatal ==
    ConfigAbsent =>
        /\ main.pc \in {"load_dotenv", "getenv", "check", "failed"}
        /\ main.pc = "failed" => main.error = "RuntimeError"
        /\ main.client = Undefined
        /\ main.app = Undefined
        /\ \A c \in Clients : req[c] = Idle

C11_NothingDone ==
    ConfigAbsent => UNCHANGED <<entries_col, req, acked, lastList>>

\* C11: when the connection string is absent (unset or empty), the module
\* stops at the check with the configuration error, before the store client
\* and the application exist; no request is taken up, and no step of the
\* run reads or writes the collection.
C11_AbsentUriPreventsStartup == []C11_Fatal /\ [][C11_NothingDone]_vars

\* The environment sets MONGO_URI to nothing, which also keeps the value of
\* the .env file out; the process has failed with entries in the store.
C11_Witness ==
    /\ launch.environ = Str("")
    /\ launch.dotenv
    /\ launch.file \in ValidUris
    /\ main.pc = "failed"
    /\ main.error = "RuntimeError"
    /\ main.client = Undefined
    /\ Len(entries_col) = 1

====
